---- MODULE Spec2Model ----
(***************************************************************************)
(* Model of the Aj+ SEO image optimizer: the image collection kept by App  *)
(* (src/App.tsx), the per-image editor component (src/components/          *)
(* ImageEditor.tsx), the canvas compressor and the metadata service        *)
(* (src/unnamed/part_000).                                                 *)
(*                                                                         *)
(* Strings of the program are tuples of one-character strings, so that     *)
(* split, toLowerCase, replace and startsWith are computed as the code     *)
(* computes them.  Quality values are in hundredths (0.7 is 70).           *)
(***************************************************************************)
EXTENDS Integers, Sequences, FiniteSets, Bags, TLC

VARIABLES
    images,      \* App state `images`: the ordered collection of OptimizedImage
    editors,     \* per mounted ImageEditor: its local state isGenerating, localQuality
    jobs,        \* bag of compressImage promises that can still settle, each with
                 \* the continuation awaiting it
    abandoned,   \* compressImage promises that can no longer settle
    calls,       \* generateImageMetadata promises not yet settled
    revoked,     \* per preview URL: how many times URL.revokeObjectURL was called
    nextUrl,     \* number of preview URLs handed out by URL.createObjectURL
    pc,          \* position inside processFiles: "idle" or "forEach"
    files,       \* processFiles' parameter `files` while pc = "forEach"
    newImages,   \* processFiles' local `newImages` while pc = "forEach"
    count,       \* user events so far: quality commits, auto-generate requests,
                 \* metadata keystrokes (bounded)
    lastSettled, \* history, per item of the collection: how the compressImage promise
                 \* started for it that settled last ended ("none" before any did)
    link,        \* the <a> element handleDownload clicked last: its download name
                 \* and the Blob behind its href
    surface,     \* one run of compressImage's img.onload: the image's intrinsic
                 \* size, config.maxWidth and the size given to the canvas
    slug,        \* a text given to slugify, and the results of slugify on it and
                 \* on its result
    ad           \* one AdUnit: its props, state, refs and observer, and the
                 \* requests it pushed

vars == <<images, editors, jobs, abandoned, calls, revoked, nextUrl, pc, files, newImages,
          count, lastSettled, link, surface, slug, ad>>

-----------------------------------------------------------------------------
(* Bounds of the model *)

MaxUploads == 2      \* accepted uploads over the collection's lifetime
MaxJobs == 2         \* compressImage promises pending at once
MaxEdits == 1        \* metadata keystrokes
MaxCommits == 2      \* slider releases that start a recompression
MaxRequests == 2     \* clicks on Auto-Generate SEO
MaxImgWidth == 6     \* intrinsic width of an image given to the compressor
MaxImgHeight == 5    \* intrinsic height of an image given to the compressor
MaxMaxWidth == 4     \* config.maxWidth given to the compressor
MaxTextLen == 4      \* length of a text given to slugify
MaxExtent == 2       \* width and height of an ad container, in half pixels
MaxFrames == 2       \* animation-frame callbacks of an ad unit waiting at once

(* Program constants *)

DefaultQuality == 70
SliderMin == 10
SliderMax == 100
SliderStep == 5

-----------------------------------------------------------------------------
(* Strings *)

UpperCase == <<"A","B","C","D","E","F","G","H","I","J","K","L","M",
               "N","O","P","Q","R","S","T","U","V","W","X","Y","Z">>
LowerCase == <<"a","b","c","d","e","f","g","h","i","j","k","l","m",
               "n","o","p","q","r","s","t","u","v","w","x","y","z">>

\* String.prototype.toLowerCase on one character
LowerChar(c) ==
    IF \E i \in 1..26 : UpperCase[i] = c
    THEN LowerCase[CHOOSE i \in 1..26 : UpperCase[i] = c]
    ELSE c

ToLowerCase(s) == [i \in 1..Len(s) |-> LowerChar(s[i])]

\* the regular expression class \s
IsSpace(c) == c \in {" ", "\t", "\n"}

\* s.startsWith(p)
StartsWith(s, p) == Len(s) >= Len(p) /\ SubSeq(s, 1, Len(p)) = p

\* s.endsWith(p)
EndsWith(s, p) == Len(s) >= Len(p) /\ SubSeq(s, Len(s) - Len(p) + 1, Len(s)) = p

DotJpg == <<".","j","p","g">>
DotJpeg == <<".","j","p","e","g">>
OptimizedImage == <<"o","p","t","i","m","i","z","e","d","-","i","m","a","g","e">>

\* s.split('.')[0]
RECURSIVE SplitDotFirst(_)
SplitDotFirst(s) ==
    IF s = <<>> \/ Head(s) = "." THEN <<>>
    ELSE <<Head(s)>> \o SplitDotFirst(Tail(s))

\* s.replace(/\s+/g, '-')
RECURSIVE ReplaceSpaces(_)
ReplaceSpaces(s) ==
    IF s = <<>> THEN <<>>
    ELSE IF IsSpace(Head(s))
         THEN IF Len(s) > 1 /\ IsSpace(s[2])
              THEN ReplaceSpaces(Tail(s))
              ELSE <<"-">> \o ReplaceSpaces(Tail(s))
         ELSE <<Head(s)>> \o ReplaceSpaces(Tail(s))

ImagePrefix == <<"i","m","a","g","e","/">>
UntitledImage == <<"U","n","t","i","t","l","e","d"," ","I","m","a","g","e">>
ImageDescription == <<"I","m","a","g","e"," ","d","e","s","c","r","i","p","t","i","o","n">>
ImageWord == <<"i","m","a","g","e">>

Digits == {"0","1","2","3","4","5","6","7","8","9"}

\* the characters of the class \w
IsWordChar(c) ==
    \/ \E i \in 1..26 : c = LowerCase[i] \/ c = UpperCase[i]
    \/ c \in Digits
    \/ c = "_"

\* s.trim()
RECURSIVE TrimStart(_)
TrimStart(s) ==
    IF s # <<>> /\ IsSpace(Head(s)) THEN TrimStart(Tail(s)) ELSE s

RECURSIVE TrimEnd(_)
TrimEnd(s) ==
    IF s # <<>> /\ IsSpace(s[Len(s)]) THEN TrimEnd(SubSeq(s, 1, Len(s) - 1)) ELSE s

Trim(s) == TrimEnd(TrimStart(s))

\* s.replace(/[^\w-]+/g, '')
RemoveNonWord(s) == SelectSeq(s, LAMBDA c : IsWordChar(c) \/ c = "-")

\* s.replace(/--+/g, '-')
RECURSIVE CollapseHyphens(_)
CollapseHyphens(s) ==
    IF s = <<>> THEN <<>>
    ELSE IF Head(s) = "-" /\ Len(s) > 1 /\ s[2] = "-"
         THEN CollapseHyphens(Tail(s))
         ELSE <<Head(s)>> \o CollapseHyphens(Tail(s))

\* mutant of Slugify: runs of hyphens are kept
SlugifyNoCollapse(text) ==
    RemoveNonWord(ReplaceSpaces(Trim(ToLowerCase(text))))

\* slugify
Slugify(text) ==
    CollapseHyphens(RemoveNonWord(ReplaceSpaces(Trim(ToLowerCase(text)))))

-----------------------------------------------------------------------------
(* The upload source: the File objects a user can drop.  `decodable` says  *)
(* whether the browser can decode the bytes as an image.                   *)

RawFiles == {"dog", "corrupt", "notes"}

FileName(f) ==
    CASE f = "dog"     -> <<"M","y"," ","D","o","g",".","p","n","g">>
      [] f = "corrupt" -> <<"i","m","a","g","e","1",".","j","p","g">>
      [] f = "notes"   -> <<"n","o","t","e","s",".","t","x","t">>
      [] f = "scan"    -> <<"M","y"," "," ","S","c","a","n",".","v","2",".","P","N","G">>

FileType(f) ==
    CASE f = "dog"     -> <<"i","m","a","g","e","/","p","n","g">>
      [] f = "corrupt" -> <<"i","m","a","g","e","/","j","p","e","g">>
      [] f = "notes"   -> <<"t","e","x","t","/","p","l","a","i","n">>
      [] f = "scan"    -> <<"i","m","a","g","e","/","p","n","g">>

FileSize(f) ==
    CASE f = "dog" -> 9 [] f = "corrupt" -> 4 [] f = "notes" -> 2 [] f = "scan" -> 6

Decodable(f) == f \in {"dog", "scan"}

\* the files dropped where the claims are about names
NamedFiles == RawFiles \cup {"scan"}

\* FileList values handed to processFiles
RECURSIVE SeqsUpTo(_, _)
SeqsUpTo(S, n) ==
    IF n = 0 THEN {<<>>}
    ELSE SeqsUpTo(S, n - 1) \cup
         {Append(s, x) : s \in {t \in SeqsUpTo(S, n - 1) : Len(t) = n - 1}, x \in S}

FileLists == SeqsUpTo(RawFiles, MaxUploads)

\* strings generateId can return
IdSpace == {"k3x9", "q7"}

-----------------------------------------------------------------------------
(* Values *)

NoBlob == [file |-> "none", quality |-> 0, size |-> 0]     \* null

\* no download was made yet
NoLink == [download |-> <<>>, href |-> NoBlob]

\* slugify was given no text
NoSlug == [text |-> <<>>, once |-> <<>>, twice |-> <<>>, stage |-> "none"]

\* no AdUnit is rendered
NoAd == [stage |-> "none", client |-> "", slot |-> "", shouldLoadAd |-> FALSE,
         adRequested |-> FALSE, observing |-> FALSE, closure |-> FALSE, frames |-> {},
         filled |-> FALSE, pushes |-> 0, seen |-> FALSE]

\* no image is loaded in the compressor under study
NoSurface == [imgWidth |-> 0, imgHeight |-> 0, maxWidth |-> 0,
              canvasWidth |-> 0, canvasHeight |-> 0, stage |-> "none"]

\* mutant of SliderValues: the slider starts at 0
SliderValuesFromZero ==
    {SliderStep * k : k \in 0..(SliderMax \div SliderStep)}

SliderValues ==
    {SliderMin + SliderStep * k : k \in 0..((SliderMax - SliderMin) \div SliderStep)}

\* the slider positions the modelled user drags to
DragValues == {30, 70}

MetadataKeys == {"title", "altText", "caption", "fileName"}

\* texts typed into a metadata field
EditTexts == {<<>>, <<"C","a","t">>, <<"a",".","J","P","G">>, <<"b",".","j","p","e","g">>}

\* JSON objects the metadata service answers with
ServiceReplies ==
    { [title |-> <<"C","a","t">>, altText |-> <<"a">>, caption |-> <<>>,
       fileName |-> <<>>] }

-----------------------------------------------------------------------------
(* Sequence helpers *)

\* Array.prototype.find: index of the first element with the id, 0 if none
FindIndex(imgs, id) ==
    IF \E i \in 1..Len(imgs) : imgs[i].id = id
    THEN CHOOSE i \in 1..Len(imgs) :
            imgs[i].id = id /\ \A j \in 1..(i - 1) : imgs[j].id # id
    ELSE 0

-----------------------------------------------------------------------------
(* src/App.tsx *)

\* generateId: Math.random().toString(36).substr(2, 9) draws a string; nothing
\* relates the draw to the ids drawn before
generateId == IdSpace

\* updateImage: prev.map(img => img.id === id ? { ...img, ...updates } : img)
UpdateImage(imgs, id, updates) ==
    [i \in 1..Len(imgs) |->
        IF imgs[i].id = id
        THEN [f \in DOMAIN imgs[i] |->
                 IF f \in DOMAIN updates THEN updates[f] ELSE imgs[i][f]]
        ELSE imgs[i]]

\* processFiles: .filter(file => file.type.startsWith('image/'))
IsImageFile(f) == StartsWith(FileType(f), ImagePrefix)

\* mutant of AcceptedFiles: the filter on the declared type is missing
AcceptedFilesUnfiltered(list) == list

RECURSIVE AcceptedFiles(_)
AcceptedFiles(list) ==
    IF list = <<>> THEN <<>>
    ELSE IF IsImageFile(Head(list))
         THEN <<Head(list)>> \o AcceptedFiles(Tail(list))
         ELSE AcceptedFiles(Tail(list))

\* processFiles: the metadata.fileName default
DefaultFileName(f) == ReplaceSpaces(ToLowerCase(SplitDotFirst(FileName(f))))

\* mutant of NewImage: the item is created in the status compressing
NewImageCompressing(f, id, url) ==
    [ id |-> id,
      originalFile |-> f,
      originalPreview |-> url,
      compressedBlob |-> NoBlob,
      compressedSize |-> 0,
      originalSize |-> FileSize(f),
      status |-> "compressing",
      metadata |-> [title |-> <<>>, altText |-> <<>>, caption |-> <<>>,
                    fileName |-> DefaultFileName(f)],
      currentQuality |-> DefaultQuality ]

\* processFiles: the object built by .map(file => ({ ... }))
NewImage(f, id, url) ==
    [ id |-> id,
      originalFile |-> f,
      originalPreview |-> url,
      compressedBlob |-> NoBlob,
      compressedSize |-> 0,
      originalSize |-> FileSize(f),
      status |-> "pending",
      metadata |-> [title |-> <<>>, altText |-> <<>>, caption |-> <<>>,
                    fileName |-> DefaultFileName(f)],
      currentQuality |-> DefaultQuality ]

\* a call of compressImage with the continuation that awaits it
StartJob(js, id, f, url, q) ==
    js (+) SetToBag({[id |-> id, file |-> f, owner |-> url, quality |-> q]})

\* processFiles: newImages.forEach, the part of each callback before its await
RECURSIVE ForEachStart(_, _, _)
ForEachStart(imgs, js, news) ==
    IF news = <<>> THEN <<imgs, js>>
    ELSE ForEachStart(
            UpdateImage(imgs, Head(news).id, [status |-> "compressing"]),
            StartJob(js, Head(news).id, Head(news).originalFile,
                     Head(news).originalPreview, Head(news).currentQuality),
            Tail(news))

\* the editor state a newly rendered ImageEditor starts with
MountEditor(img) == [isGenerating |-> FALSE, localQuality |-> img.currentQuality]

Urls(imgs) == {imgs[i].originalPreview : i \in 1..Len(imgs)}

\* the history kept for the items of imgs: a new item has no settled promise
Tracked(ls, imgs) == [u \in Urls(imgs) |-> IF u \in DOMAIN ls THEN ls[u] ELSE "none"]

\* the history after the promise of job settled
Outcome(ls, job, how) == [u \in DOMAIN ls |-> IF u = job.owner THEN how ELSE ls[u]]

\* the item an ImageEditor renders (its `image` prop)
ItemOf(url) == images[CHOOSE i \in 1..Len(images) : images[i].originalPreview = url]

\* what rendering does to the editors: unmount those whose item is gone, mount
\* the new ones, and run the effect that copies a changed currentQuality into
\* localQuality
Render(eds, old, new) ==
    [u \in Urls(new) |->
        LET img == new[CHOOSE i \in 1..Len(new) : new[i].originalPreview = u]
        IN  IF u \notin DOMAIN eds THEN MountEditor(img)
            ELSE LET was == old[CHOOSE i \in 1..Len(old) : old[i].originalPreview = u]
                 IN  IF was.currentQuality # img.currentQuality
                     THEN [eds[u] EXCEPT !.localQuality = img.currentQuality]
                     ELSE eds[u]]

\* processFiles up to setImages(prev => [...prev, ...newImages])
ProcessFiles(input, ids) ==
    /\ pc = "idle"
    /\ IF input.null \/ AcceptedFiles(input.items) = <<>>
       THEN UNCHANGED vars
       ELSE LET acc == AcceptedFiles(input.items)
                n == Len(acc)
                made == [i \in 1..n |-> NewImage(acc[i], ids[i], nextUrl + i)]
            IN  /\ nextUrl + n <= MaxUploads
                /\ BagCardinality(jobs) + n <= MaxJobs
                /\ files' = input.items
                /\ newImages' = made
                /\ images' = images \o made
                /\ nextUrl' = nextUrl + n
                /\ revoked' = [u \in 1..(nextUrl + n) |->
                                  IF u <= nextUrl THEN revoked[u] ELSE 0]
                /\ pc' = "forEach"
                /\ lastSettled' = Tracked(lastSettled, images')
                /\ UNCHANGED <<editors, jobs, abandoned, calls, count, link, surface, slug, ad>>

\* processFiles: newImages.forEach(...) up to each callback's await, and the
\* render that follows the handler
ProcessFilesForEach ==
    /\ pc = "forEach"
    /\ LET r == ForEachStart(images, jobs, newImages)
       IN  /\ images' = r[1]
           /\ jobs' = r[2]
           /\ editors' = Render(editors, images, r[1])
    /\ pc' = "idle"
    /\ files' = <<>>
    /\ newImages' = <<>>
    /\ UNCHANGED <<abandoned, calls, revoked, nextUrl, count, lastSettled, link, surface, slug, ad>>

\* handleRecompress up to its await, for the ImageEditor of `url` releasing the
\* slider at newQuality
HandleRecompress(id, newQuality) ==
    LET k == FindIndex(images, id)
    IN  IF k = 0
        THEN UNCHANGED vars
        ELSE /\ BagCardinality(jobs) < MaxJobs
             /\ count.commits < MaxCommits
             /\ count' = [count EXCEPT !.commits = @ + 1]
             /\ images' = UpdateImage(images, id,
                    [status |-> "compressing", currentQuality |-> newQuality])
             /\ jobs' = StartJob(jobs, id, images[k].originalFile,
                                 images[k].originalPreview, newQuality)
             /\ editors' = Render(editors, images, images')
             /\ UNCHANGED <<abandoned, calls, revoked, nextUrl, pc, newImages, files, lastSettled, link, surface, slug, ad>>

\* removeImage
RemoveImage(id) ==
    /\ pc = "idle"
    /\ LET k == FindIndex(images, id)
       IN  revoked' = IF k = 0 THEN revoked
                      ELSE [revoked EXCEPT ![images[k].originalPreview] = @ + 1]
    /\ images' = SelectSeq(images, LAMBDA i : i.id # id)
    /\ editors' = Render(editors, images, images')
    /\ lastSettled' = Tracked(lastSettled, images')
    /\ UNCHANGED <<jobs, abandoned, calls, nextUrl, pc, newImages, files, count, link, surface, slug, ad>>

\* the Clear All button: onClick={() => setImages([])}, rendered while
\* images.length > 0
ClearAll ==
    /\ pc = "idle"
    /\ Len(images) > 0
    /\ images' = <<>>
    /\ editors' = Render(editors, images, images')
    /\ lastSettled' = Tracked(lastSettled, images')
    /\ UNCHANGED <<jobs, abandoned, calls, revoked, nextUrl, pc, newImages, files, count, link, surface, slug, ad>>

-----------------------------------------------------------------------------
(* src/unnamed/part_000, lines 1-87: the compression service *)

\* Math.round(num / den) for num >= 0, den > 0: the nearest integer, a half
\* rounded up
MathRound(num, den) == (2 * num + den) \div (2 * den)

\* mutant of ResizedHeight: the quotient is truncated
ResizedHeightFloor(width, height, maxWidth) == (height * maxWidth) \div width

\* compressImage, img.onload: height = Math.round((height * config.maxWidth) / width)
ResizedHeight(width, height, maxWidth) == MathRound(height * maxWidth, width)

\* compressImage, img.onload: the width and height given to the canvas
CanvasSize(width, height, maxWidth) ==
    IF width > maxWidth
    THEN <<maxWidth, ResizedHeight(width, height, maxWidth)>>
    ELSE <<width, height>>

\* compressImage, img.onload up to canvas.height = height
ImgOnLoad ==
    /\ surface.stage = "loaded"
    /\ LET size == CanvasSize(surface.imgWidth, surface.imgHeight, surface.maxWidth)
       IN  surface' = [surface EXCEPT !.canvasWidth = size[1],
                                      !.canvasHeight = size[2],
                                      !.stage = "sized"]
    /\ UNCHANGED <<images, editors, jobs, abandoned, calls, revoked, nextUrl, pc, files,
                   newImages, count, lastSettled, link, slug, ad>>

\* compressImage: how the promise can end for a file.  reader.onerror rejects;
\* img.onload runs only when the data decodes, and then rejects without a 2d
\* context or when toBlob yields null, and resolves otherwise.  Nothing is
\* registered for the image's error event, so an undecodable file settles the
\* promise only through reader.onerror.
CompressOutcomes(f) ==
    IF Decodable(f)
    THEN {"readerError", "noContext", "nullBlob", "blob"}
    ELSE {"readerError", "imgError"}

\* the byte length of the JPEG canvas.toBlob encodes from the file at a quality
EncodedSize(f, q) == 1 + (FileSize(f) * q) \div 100

\* mutant of EncodedBlob: the encoder runs at the default quality, not at
\* config.quality
EncodedBlobDefaultQuality(f, q) ==
    [file |-> f, quality |-> DefaultQuality, size |-> EncodedSize(f, DefaultQuality)]

\* the Blob canvas.toBlob hands to resolve
EncodedBlob(f, q) == [file |-> f, quality |-> q, size |-> EncodedSize(f, q)]

\* mutant of CompressionSucceeded: compressedSize is not stored with the blob
CompressionSucceededNoSize(imgs, job, compressed) ==
    UpdateImage(imgs, job.id, [compressedBlob |-> compressed, status |-> "done"])

\* the continuation after `await compressImage(...)`: the try branch
CompressionSucceeded(imgs, job, compressed) ==
    UpdateImage(imgs, job.id,
        [compressedBlob |-> compressed, compressedSize |-> compressed.size,
         status |-> "done"])

\* the continuation after `await compressImage(...)`: the catch branch
CompressionFailed(imgs, job) == UpdateImage(imgs, job.id, [status |-> "error"])

JobResolve(job) ==
    /\ pc = "idle"
    /\ BagIn(job, jobs)
    /\ "blob" \in CompressOutcomes(job.file)
    /\ images' = CompressionSucceeded(images, job, EncodedBlob(job.file, job.quality))
    /\ jobs' = jobs (-) SetToBag({job})
    /\ editors' = Render(editors, images, images')
    /\ lastSettled' = Outcome(lastSettled, job, "resolved")
    /\ UNCHANGED <<abandoned, calls, revoked, nextUrl, pc, newImages, files, count, link, surface, slug, ad>>

JobReject(job, cause) ==
    /\ pc = "idle"
    /\ BagIn(job, jobs)
    /\ cause \in CompressOutcomes(job.file) \ {"blob", "imgError"}
    /\ images' = CompressionFailed(images, job)
    /\ jobs' = jobs (-) SetToBag({job})
    /\ editors' = Render(editors, images, images')
    /\ lastSettled' = Outcome(lastSettled, job, "rejected")
    /\ UNCHANGED <<abandoned, calls, revoked, nextUrl, pc, newImages, files, count, link, surface, slug, ad>>

\* the image's error event fires and no handler is registered: the promise is
\* never settled and the continuation never runs
JobImgError(job) ==
    /\ pc = "idle"
    /\ BagIn(job, jobs)
    /\ "imgError" \in CompressOutcomes(job.file)
    /\ jobs' = jobs (-) SetToBag({job})
    /\ abandoned' = abandoned \cup {job}
    /\ UNCHANGED <<images, editors, calls, revoked, nextUrl, pc, newImages, files, count, lastSettled, link, surface, slug, ad>>

-----------------------------------------------------------------------------
(* src/unnamed/part_000, lines 88-181: the metadata service *)

\* a || b on strings
OrElse(a, b) == IF a = <<>> THEN b ELSE a

\* generateImageMetadata: the value its promise resolves to.  Every failure
\* inside (reading the file, the request, an empty or unparsable answer) is
\* caught and answered with the defaults of the catch block.
GenerateImageMetadata(f, answer) ==
    IF answer.ok
    THEN [title |-> OrElse(answer.reply.title, UntitledImage),
          altText |-> OrElse(answer.reply.altText, ImageDescription),
          caption |-> OrElse(answer.reply.caption, <<>>),
          fileName |-> OrElse(answer.reply.fileName, ImageWord)]
    ELSE [title |-> <<>>, altText |-> <<>>, caption |-> <<>>,
          fileName |-> SplitDotFirst(FileName(f))]

ServiceAnswers ==
    {[ok |-> TRUE, reply |-> r] : r \in ServiceReplies}
    \cup {[ok |-> FALSE, reply |-> r] :
            r \in {[title |-> <<>>, altText |-> <<>>, caption |-> <<>>, fileName |-> <<>>]}}

-----------------------------------------------------------------------------
(* src/components/ImageEditor.tsx *)

\* the slider's onChange: setLocalQuality(parseFloat(e.target.value)); the input
\* is disabled while the item is compressing
SetLocalQuality(url, v) ==
    /\ pc = "idle"
    /\ url \in DOMAIN editors
    /\ ItemOf(url).status # "compressing"
    /\ v \in SliderValues
    /\ v # editors[url].localQuality
    /\ editors' = [editors EXCEPT ![url].localQuality = v]
    /\ UNCHANGED <<images, jobs, abandoned, calls, revoked, nextUrl, pc, newImages, files, count, lastSettled, link, surface, slug, ad>>

\* mutant of HandleQualityRelease: every release commits, also one at the
\* item's current quality
HandleQualityReleaseAlways(url) ==
    /\ pc = "idle"
    /\ url \in DOMAIN editors
    /\ ItemOf(url).status # "compressing"
    /\ HandleRecompress(ItemOf(url).id, editors[url].localQuality)

\* handleQualityRelease, on the slider's mouseup / touchend
HandleQualityRelease(url) ==
    /\ pc = "idle"
    /\ url \in DOMAIN editors
    /\ ItemOf(url).status # "compressing"
    /\ IF editors[url].localQuality # ItemOf(url).currentQuality
       THEN HandleRecompress(ItemOf(url).id, editors[url].localQuality)
       ELSE UNCHANGED vars

\* handleMetadataChange
HandleMetadataChange(url, key, value) ==
    /\ pc = "idle"
    /\ url \in DOMAIN editors
    /\ count.edits < MaxEdits
    /\ value # ItemOf(url).metadata[key]
    /\ LET newMetadata == [ItemOf(url).metadata EXCEPT ![key] = value]
       IN  images' = UpdateImage(images, ItemOf(url).id, [metadata |-> newMetadata])
    /\ count' = [count EXCEPT !.edits = @ + 1]
    /\ editors' = Render(editors, images, images')
    /\ UNCHANGED <<jobs, abandoned, calls, revoked, nextUrl, pc, newImages, files, lastSettled, link, surface, slug, ad>>

\* mutant of HandleTitleBlur: the file name is replaced whatever it is
HandleTitleBlurAlways(url) ==
    /\ pc = "idle"
    /\ url \in DOMAIN editors
    /\ LET metadata == ItemOf(url).metadata
       IN  IF metadata.title # <<>>
           THEN /\ images' = UpdateImage(images, ItemOf(url).id,
                       [metadata |-> [metadata EXCEPT !.fileName = Slugify(metadata.title)]])
                /\ editors' = Render(editors, images, images')
                /\ UNCHANGED <<jobs, abandoned, calls, revoked, nextUrl, pc, newImages,
                               files, count, lastSettled, link, surface, slug, ad>>
           ELSE UNCHANGED vars

\* handleTitleBlur: the title field loses the focus
HandleTitleBlur(url) ==
    /\ pc = "idle"
    /\ url \in DOMAIN editors
    /\ LET metadata == ItemOf(url).metadata
       IN  IF /\ metadata.title # <<>>
              /\ metadata.fileName = <<>> \/ StartsWith(metadata.fileName, ImageWord)
           THEN /\ images' = UpdateImage(images, ItemOf(url).id,
                       [metadata |-> [metadata EXCEPT !.fileName = Slugify(metadata.title)]])
                /\ editors' = Render(editors, images, images')
                /\ UNCHANGED <<jobs, abandoned, calls, revoked, nextUrl, pc, newImages,
                               files, count, lastSettled, link, surface, slug, ad>>
           ELSE UNCHANGED vars

\* mutant of FinalName: the extension is compared without toLowerCase
FinalNameCaseSensitive(fileName) ==
    LET finalName == OrElse(fileName, OptimizedImage)
    IN  IF ~EndsWith(finalName, DotJpg) /\ ~EndsWith(finalName, DotJpeg)
        THEN finalName \o DotJpg
        ELSE finalName

\* handleDownload: finalName
FinalName(fileName) ==
    LET finalName == OrElse(fileName, OptimizedImage)
    IN  IF /\ ~EndsWith(ToLowerCase(finalName), DotJpg)
           /\ ~EndsWith(ToLowerCase(finalName), DotJpeg)
        THEN finalName \o DotJpg
        ELSE finalName

\* handleDownload; the object URL it creates for the blob is revoked before it
\* returns
HandleDownload(url) ==
    /\ pc = "idle"
    /\ url \in DOMAIN editors
    /\ IF ItemOf(url).compressedBlob = NoBlob
       THEN UNCHANGED vars
       ELSE /\ link' = [download |-> FinalName(ItemOf(url).metadata.fileName),
                        href |-> ItemOf(url).compressedBlob]
            /\ UNCHANGED <<images, editors, jobs, abandoned, calls, revoked, nextUrl, pc,
                           files, newImages, count, lastSettled, surface, slug, ad>>

\* mutant of HandleGenerateSEO: the button is disabled only while the item is
\* compressing, not while isGenerating
HandleGenerateSEOWhileGenerating(url) ==
    /\ pc = "idle"
    /\ url \in DOMAIN editors
    /\ count.requests < MaxRequests
    /\ count' = [count EXCEPT !.requests = @ + 1]
    /\ ItemOf(url).status # "compressing"
    /\ images' = UpdateImage(images, ItemOf(url).id, [status |-> "analyzing"])
    /\ calls' = calls \cup {[id |-> ItemOf(url).id, file |-> ItemOf(url).originalFile,
                             owner |-> url]}
    /\ editors' = [Render(editors, images, images') EXCEPT ![url].isGenerating = TRUE]
    /\ UNCHANGED <<jobs, abandoned, revoked, nextUrl, pc, newImages, files, lastSettled,
                   link, surface, slug, ad>>

\* handleGenerateSEO up to its await; the button is disabled while isGenerating
\* or while the item is compressing
HandleGenerateSEO(url) ==
    /\ pc = "idle"
    /\ url \in DOMAIN editors
    /\ ~editors[url].isGenerating
    /\ count.requests < MaxRequests
    /\ count' = [count EXCEPT !.requests = @ + 1]
    /\ ItemOf(url).status # "compressing"
    /\ images' = UpdateImage(images, ItemOf(url).id, [status |-> "analyzing"])
    /\ calls' = calls \cup {[id |-> ItemOf(url).id, file |-> ItemOf(url).originalFile,
                             owner |-> url]}
    /\ editors' = [Render(editors, images, images') EXCEPT ![url].isGenerating = TRUE]
    /\ UNCHANGED <<jobs, abandoned, revoked, nextUrl, pc, newImages, files, lastSettled, link, surface, slug, ad>>

\* handleGenerateSEO after its await: the try branch (generateImageMetadata
\* never rejects, so the catch branch is not taken), then finally
GenerateSEOSettle(call, answer) ==
    /\ pc = "idle"
    /\ call \in calls
    /\ LET generated == GenerateImageMetadata(call.file, answer)
       IN  images' = UpdateImage(images, call.id,
                        [metadata |-> generated, status |-> "done"])
    /\ calls' = calls \ {call}
    /\ editors' = [u \in DOMAIN editors |->
                      IF u = call.owner
                      THEN [editors[u] EXCEPT !.isGenerating = FALSE]
                      ELSE editors[u]]
    /\ UNCHANGED <<jobs, abandoned, revoked, nextUrl, pc, newImages, files, count, lastSettled, link, surface, slug, ad>>

-----------------------------------------------------------------------------

ProcessFilesInputs ==
    {[null |-> TRUE, items |-> <<>>]} \cup {[null |-> FALSE, items |-> l] : l \in FileLists}

Init ==
    /\ images = <<>>
    /\ editors = <<>>
    /\ jobs = EmptyBag
    /\ abandoned = {}
    /\ calls = {}
    /\ revoked = <<>>
    /\ nextUrl = 0
    /\ pc = "idle"
    /\ files = <<>>
    /\ newImages = <<>>
    /\ count = [commits |-> 0, requests |-> 0, edits |-> 0]
    /\ lastSettled = <<>>
    /\ link = NoLink
    /\ slug = NoSlug
    /\ ad = NoAd
    /\ surface = NoSurface

\* a drop or a file selection of one of inputs, while fewer than `limit` files
\* were accepted so far
UploadOf(inputs, limit) ==
    \E input \in inputs :
       \E ids \in [1..Len(AcceptedFiles(input.items)) -> generateId] :
          ProcessFiles(input, ids) /\ nextUrl' <= limit

Upload(limit) == UploadOf(ProcessFilesInputs, limit)

\* the FileLists of one file
SingleFileInputs == {[null |-> FALSE, items |-> <<f>>] : f \in NamedFiles}

\* the events of the promises
Completion ==
    \/ \E job \in BagToSet(jobs) : JobResolve(job)
    \/ \E job \in BagToSet(jobs), cause \in {"readerError", "noContext", "nullBlob"} :
          JobReject(job, cause)
    \/ \E job \in BagToSet(jobs) : JobImgError(job)
    \/ \E call \in calls, answer \in ServiceAnswers : GenerateSEOSettle(call, answer)

\* the events of the user on the rendered collection
UserEvent ==
    \/ \E id \in IdSpace : RemoveImage(id)
    \/ ClearAll
    \/ \E url \in 1..MaxUploads, v \in DragValues : SetLocalQuality(url, v)
    \/ \E url \in 1..MaxUploads : HandleQualityRelease(url)
    \/ \E url \in 1..MaxUploads : HandleGenerateSEO(url)

Next == Upload(MaxUploads) \/ ProcessFilesForEach \/ Completion \/ UserEvent

Spec == Init /\ [][Next]_vars

\* a single upload over the collection's lifetime
NextSingle == Upload(1) \/ ProcessFilesForEach \/ Completion \/ UserEvent

SpecSingle == Init /\ [][NextSingle]_vars

\* the events of one ImageEditor: a single upload of one file, with the
\* metadata fields edited and the result downloaded
NextEditor ==
    \/ UploadOf(SingleFileInputs, 1)
    \/ ProcessFilesForEach
    \/ Completion
    \/ UserEvent
    \/ \E url \in 1..MaxUploads, key \in MetadataKeys, value \in EditTexts :
          HandleMetadataChange(url, key, value)
    \/ \E url \in 1..MaxUploads : HandleDownload(url)

SpecEditor == Init /\ [][NextEditor]_vars

\* the metadata keystrokes of the user
MetadataEdit ==
    \E url \in 1..MaxUploads, key \in MetadataKeys, value \in EditTexts :
       HandleMetadataChange(url, key, value)

\* uploads, their compressions and removals, with the metadata fields edited
NextEdits ==
    \/ Upload(MaxUploads)
    \/ ProcessFilesForEach
    \/ \E job \in BagToSet(jobs) : JobResolve(job)
    \/ \E job \in BagToSet(jobs), cause \in {"readerError", "noContext", "nullBlob"} :
          JobReject(job, cause)
    \/ \E job \in BagToSet(jobs) : JobImgError(job)
    \/ \E id \in IdSpace : RemoveImage(id)
    \/ ClearAll
    \/ MetadataEdit

SpecEdits == Init /\ [][NextEdits]_vars

\* one item with its metadata generated and edited, and the title field left
NextTitle ==
    \/ UploadOf(SingleFileInputs, 1)
    \/ ProcessFilesForEach
    \/ Completion
    \/ \E url \in 1..MaxUploads : HandleGenerateSEO(url)
    \/ MetadataEdit
    \/ \E url \in 1..MaxUploads : HandleTitleBlur(url)
    \/ \E id \in IdSpace : RemoveImage(id)

SpecTitle == Init /\ [][NextTitle]_vars

\* one item and its quality slider, dragged to every position it has
NextQuality ==
    \/ Upload(1)
    \/ ProcessFilesForEach
    \/ \E job \in BagToSet(jobs) : JobResolve(job)
    \/ \E job \in BagToSet(jobs), cause \in {"readerError", "noContext", "nullBlob"} :
          JobReject(job, cause)
    \/ \E job \in BagToSet(jobs) : JobImgError(job)
    \/ \E url \in 1..MaxUploads, v \in SliderValues : SetLocalQuality(url, v)
    \/ \E url \in 1..MaxUploads : HandleQualityRelease(url)
    \/ \E id \in IdSpace : RemoveImage(id)

SpecQuality == Init /\ [][NextQuality]_vars

\* the images and configurations compressImage is run on: the small sizes, and
\* the sizes of a photo wider and of one narrower than the 1920 App passes
LoadedImages ==
    {<<w, h, m>> : w \in 1..MaxImgWidth, h \in 1..MaxImgHeight, m \in 1..MaxMaxWidth}
    \cup {<<3000, 2000, 1920>>, <<800, 600, 1920>>}

InitResize ==
    /\ images = <<>>
    /\ editors = <<>>
    /\ jobs = EmptyBag
    /\ abandoned = {}
    /\ calls = {}
    /\ revoked = <<>>
    /\ nextUrl = 0
    /\ pc = "idle"
    /\ files = <<>>
    /\ newImages = <<>>
    /\ count = [commits |-> 0, requests |-> 0, edits |-> 0]
    /\ lastSettled = <<>>
    /\ link = NoLink
    /\ slug = NoSlug
    /\ ad = NoAd
    /\ \E t \in LoadedImages :
          surface = [imgWidth |-> t[1], imgHeight |-> t[2], maxWidth |-> t[3],
                     canvasWidth |-> 0, canvasHeight |-> 0, stage |-> "loaded"]

NextResize == ImgOnLoad

\* one run of img.onload for every image and configuration
SpecResize == InitResize /\ [][NextResize]_vars

(* AdUnit, the variant that waits for its container to be visible.  The     *)
(* props client and slot are only compared, and are plain strings here.     *)
(* Sizes are in half pixels.  ad.frames holds the requestAnimationFrame     *)
(* callbacks not yet run, each with the entry it was given and the          *)
(* shouldLoadAd its observer's effect closed over; ad.seen records that the *)
(* observer reported a size with a nonzero width and a nonzero height.      *)

AdClients == {"", "ca-pub-YOUR_ID_HERE", "ca-pub-6989783976135951"}
AdSlots == {"", "9069653922"}
Extents == 0..MaxExtent

\* the condition of the placeholder check and of the placeholder UI
IsPlaceholder(client, slot) ==
    client = "ca-pub-YOUR_ID_HERE" \/ client = "" \/ slot = ""

\* Math.floor of a size in half pixels
MathFloor(extent) == extent \div 2

\* mutant of IsVisible: the height is not looked at
IsVisibleWidthOnly(width, height) ==
    MathFloor(width) > 0

\* width > 0 && height > 0 of the floored sizes of an entry
IsVisible(width, height) ==
    MathFloor(width) > 0 /\ MathFloor(height) > 0

\* the first render of the unit and its two effects: the observer is created
\* and observes the container unless the configuration is the placeholder's;
\* shouldLoadAd is false, so nothing is requested
AdMount(client, slot) ==
    /\ ad.stage = "none"
    /\ ad' = [ad EXCEPT !.stage = "mounted", !.client = client, !.slot = slot,
                        !.observing = ~IsPlaceholder(client, slot),
                        !.closure = FALSE]
    /\ UNCHANGED <<images, editors, jobs, abandoned, calls, revoked, nextUrl, pc, files,
                   newImages, count, lastSettled, link, surface, slug>>

\* the ResizeObserver callback: the entry is handed to requestAnimationFrame
AdResizeObserved(width, height) ==
    /\ ad.stage = "mounted"
    /\ ad.observing
    /\ Cardinality(ad.frames) < MaxFrames
    /\ ad' = [ad EXCEPT
                 !.frames = @ \cup {[width |-> width, height |-> height,
                                     closure |-> ad.closure]},
                 !.seen = @ \/ (width > 0 /\ height > 0)]
    /\ UNCHANGED <<images, editors, jobs, abandoned, calls, revoked, nextUrl, pc, files,
                   newImages, count, lastSettled, link, surface, slug>>

\* the ad-request effect run with shouldLoadAd true: the unit after it.
\* adRef.current is the ins element, rendered unless the placeholder UI is;
\* a push that throws is caught and leaves adRequested false.
AdRequestEffect(unit, thrown) ==
    IF ~unit.adRequested /\ ~IsPlaceholder(unit.client, unit.slot) /\ ~unit.filled
    THEN [unit EXCEPT !.pushes = @ + 1, !.adRequested = ~thrown]
    ELSE unit

\* an animation-frame callback runs.  setShouldLoadAd(true) on a mounted unit
\* whose shouldLoadAd is false renders it again: the observer's effect is
\* cleaned up and run again, and the ad-request effect runs.
AdAnimationFrame(frame, thrown) ==
    /\ frame \in ad.frames
    /\ LET rest == [ad EXCEPT !.frames = @ \ {frame}]
       IN  IF /\ IsVisible(frame.width, frame.height)
              /\ ~frame.closure
              /\ ad.stage = "mounted"
              /\ ~ad.shouldLoadAd
           THEN ad' = AdRequestEffect(
                         [rest EXCEPT !.shouldLoadAd = TRUE,
                                      !.observing = ~IsPlaceholder(ad.client, ad.slot),
                                      !.closure = TRUE],
                         thrown)
           ELSE ad' = rest
    /\ UNCHANGED <<images, editors, jobs, abandoned, calls, revoked, nextUrl, pc, files,
                   newImages, count, lastSettled, link, surface, slug>>

\* the ad script (or anything else on the page) fills the ins element
AdFilled ==
    /\ ad.stage = "mounted"
    /\ ~IsPlaceholder(ad.client, ad.slot)
    /\ ~ad.filled
    /\ ad' = [ad EXCEPT !.filled = TRUE]
    /\ UNCHANGED <<images, editors, jobs, abandoned, calls, revoked, nextUrl, pc, files,
                   newImages, count, lastSettled, link, surface, slug>>

\* the unit is unmounted: the cleanup of the observer's effect disconnects it
AdUnmount ==
    /\ ad.stage = "mounted"
    /\ ad' = [ad EXCEPT !.stage = "unmounted", !.observing = FALSE]
    /\ UNCHANGED <<images, editors, jobs, abandoned, calls, revoked, nextUrl, pc, files,
                   newImages, count, lastSettled, link, surface, slug>>

NextAd ==
    \/ \E client \in AdClients, slot \in AdSlots : AdMount(client, slot)
    \/ \E width \in Extents, height \in Extents : AdResizeObserved(width, height)
    \/ \E frame \in ad.frames, thrown \in BOOLEAN : AdAnimationFrame(frame, thrown)
    \/ AdFilled
    \/ AdUnmount

\* one ad unit from its mount on
SpecAd == Init /\ [][NextAd]_vars

\* the characters of the texts slugify is run on: a capital and a small
\* letter, a digit, the underscore, the hyphen, white space and punctuation
SlugAlphabet == {"A", "b", "1", "_", "-", " ", "!"}

SlugTexts == SeqsUpTo(SlugAlphabet, MaxTextLen)

InitSlug ==
    /\ images = <<>>
    /\ editors = <<>>
    /\ jobs = EmptyBag
    /\ abandoned = {}
    /\ calls = {}
    /\ revoked = <<>>
    /\ nextUrl = 0
    /\ pc = "idle"
    /\ files = <<>>
    /\ newImages = <<>>
    /\ count = [commits |-> 0, requests |-> 0, edits |-> 0]
    /\ lastSettled = <<>>
    /\ link = NoLink
    /\ surface = NoSurface
    /\ ad = NoAd
    /\ \E text \in SlugTexts :
          slug = [text |-> text, once |-> <<>>, twice |-> <<>>, stage |-> "text"]

\* slugify(text)
SlugifyText ==
    /\ slug.stage = "text"
    /\ slug' = [slug EXCEPT !.once = Slugify(slug.text), !.stage = "once"]
    /\ UNCHANGED <<images, editors, jobs, abandoned, calls, revoked, nextUrl, pc, files,
                   newImages, count, lastSettled, link, surface, ad>>

\* slugify(slugify(text))
SlugifyAgain ==
    /\ slug.stage = "once"
    /\ slug' = [slug EXCEPT !.twice = Slugify(slug.once), !.stage = "twice"]
    /\ UNCHANGED <<images, editors, jobs, abandoned, calls, revoked, nextUrl, pc, files,
                   newImages, count, lastSettled, link, surface, ad>>

NextSlug == SlugifyText \/ SlugifyAgain

\* slugify run on every text, and again on its result
SpecSlug == InitSlug /\ [][NextSlug]_vars

-----------------------------------------------------------------------------
(* Properties *)

\* the number of compressImage promises in the bag js started for the item of url
JobsFor(js, url) ==
    LET mine == {j \in BagToSet(js) : j.owner = url}
    IN  BagCardinality([j \in mine |-> js[j]])

\* the positions of the collection holding the item of url (at most one)
Positions(imgs, url) == {i \in 1..Len(imgs) : imgs[i].originalPreview = url}

FailedAnswers == {a \in ServiceAnswers : ~a.ok}

\* the continuation of a compression job runs: the promise resolved or rejected
JobSettles(job) ==
    \/ JobResolve(job)
    \/ \E cause \in {"readerError", "noContext", "nullBlob"} : JobReject(job, cause)

\* C1: when the metadata call of an auto-generate request fails, the item's
\* title, altText, caption and fileName are after the completion what they were
\* before it, and the item's status is done.
C1_FailedCallKeepsMetadata ==
    [][\A call \in calls, answer \in FailedAnswers :
          GenerateSEOSettle(call, answer) =>
             \A i \in Positions(images, call.owner) :
                /\ images'[i].metadata = images[i].metadata
                /\ images'[i].status = "done"]_vars

\* C2: a compression job whose source cannot be decoded ends in failure and the
\* failure sets the item's status to error: no compressImage promise is given up
\* with its item (when still in the collection) in a status other than error.
C2_UndecodableEndsInError ==
    \A job \in abandoned :
        \A i \in Positions(images, job.owner) : images[i].status = "error"

\* C3: for every item, at most one compression job for it is in flight.
C3_AtMostOneJobPerItem ==
    \A i \in 1..Len(images) : JobsFor(jobs, images[i].originalPreview) <= 1

\* C4: the completion of a compression job started for a quality other than the
\* item's current currentQuality changes neither the item's compressedBlob nor
\* its compressedSize nor its status.
C4_StaleCompletionDiscarded ==
    [][\A job \in BagToSet(jobs) :
          JobSettles(job) =>
             \A i \in Positions(images, job.owner) :
                images[i].currentQuality # job.quality =>
                   /\ images'[i].compressedBlob = images[i].compressedBlob
                   /\ images'[i].compressedSize = images[i].compressedSize
                   /\ images'[i].status = images[i].status]_vars

\* C5: Clear All leaves the collection empty and releases the preview URL of
\* every item that was in it.
C5_ClearAllReleasesPreviews ==
    [][ClearAll =>
          /\ images' = <<>>
          /\ \A i \in 1..Len(images) :
                revoked'[images[i].originalPreview] = revoked[images[i].originalPreview] + 1]_vars

\* C6: removeImage(id) for an id in the collection releases the preview URL of
\* the item with that id exactly once and deletes the item; for an id not in the
\* collection it releases nothing and leaves the collection unchanged; the
\* preview URL of an item still in the collection is never released.
C6_RemoveReleasesOnce ==
    [][\A id \in IdSpace :
          RemoveImage(id) =>
             /\ \A i \in 1..Len(images) :
                   LET url == images[i].originalPreview
                   IN  IF images[i].id = id
                       THEN /\ revoked'[url] = revoked[url] + 1
                            /\ revoked'[url] = 1
                            /\ url \notin Urls(images')
                       ELSE /\ revoked'[url] = 0
                            /\ url \in Urls(images')
             /\ (\A i \in 1..Len(images) : images[i].id # id) =>
                   images' = images /\ revoked' = revoked]_vars

\* C7: when an item was removed while a compression job or a metadata call for
\* it was in flight, the later completion of that job or call leaves the
\* collection unchanged.
C7_CompletionAfterRemovalIgnored ==
    [][/\ \A job \in BagToSet(jobs) :
             (JobSettles(job) /\ job.owner \notin Urls(images)) => images' = images
       /\ \A call \in calls, answer \in ServiceAnswers :
             (GenerateSEOSettle(call, answer) /\ call.owner \notin Urls(images)) =>
                images' = images]_vars

\* C8: all items of the collection have pairwise distinct ids.
C8_IdsDistinct ==
    \A i, j \in 1..Len(images) : i # j => images[i].id # images[j].id

\* the files of a FileList whose declared type is an image type, in their order
ImageTyped(list) ==
    SelectSeq(list, LAMBDA f : SubSeq(FileType(f), 1, 6) = <<"i","m","a","g","e","/">>)

C10_Created ==
    pc = "forEach" =>
       /\ newImages # <<>>
       /\ SubSeq(images, Len(images) - Len(newImages) + 1, Len(images)) = newImages
       /\ \A k \in 1..Len(newImages) :
             /\ newImages[k].status = "pending"
             /\ newImages[k].compressedBlob = NoBlob
             /\ newImages[k].compressedSize = 0
             /\ newImages[k].currentQuality = 70
             /\ JobsFor(jobs, newImages[k].originalPreview) = 0

C10_Started ==
    /\ pc = "forEach" =>
          /\ pc' = "idle"
          /\ \A k \in 1..Len(newImages) :
                LET url == newImages[k].originalPreview
                IN  /\ \A i \in Positions(images', url) : images'[i].status = "compressing"
                    /\ Positions(images', url) # {}
                    /\ JobsFor(jobs', url) = 1
    /\ (pc = "idle" /\ \E url \in 1..nextUrl : JobsFor(jobs', url) > JobsFor(jobs, url)) =>
          \E url \in DOMAIN editors :
             /\ editors[url].localQuality # ItemOf(url).currentQuality
             /\ HandleQualityRelease(url)
             /\ BagCardinality(jobs') = BagCardinality(jobs) + 1

C10_InitialCompressionOnce == [](C10_Created) /\ [][C10_Started]_vars

C10_Witness ==
    /\ pc = "idle"
    /\ \E i \in 1..Len(images) :
          /\ images[i].status = "error"
          /\ images[i].compressedBlob = NoBlob
          /\ JobsFor(jobs, images[i].originalPreview) = 0
    /\ count.commits = 0

\* C11: for a source of width w >= 1 and height h >= 1 and maxWidth >= 1 the
\* canvas is w x h when w <= maxWidth, and maxWidth x round(h * maxWidth / w)
\* when w > maxWidth, the rounding being to the nearest integer with a half
\* rounded up (3000x2000 at 1920 gives 1920x1280, 800x600 stays); the canvas
\* is never wider or higher than the source.
C11_CanvasSize ==
    surface.stage = "sized" =>
       LET w == surface.imgWidth
           h == surface.imgHeight
           m == surface.maxWidth
           cw == surface.canvasWidth
           ch == surface.canvasHeight
       IN  /\ w <= m => cw = w /\ ch = h
           /\ w > m =>
                 /\ cw = m
                 /\ 2 * ch * w - w <= 2 * h * m
                 /\ 2 * h * m < 2 * ch * w + w
           /\ cw <= w /\ ch <= h
           /\ (w = 3000 /\ h = 2000 /\ m = 1920) => (cw = 1920 /\ ch = 1280)
           /\ (w = 800 /\ h = 600 /\ m = 1920) => (cw = 800 /\ ch = 600)

\* an image wider than maxWidth whose scaled height falls on a half
C11_Witness ==
    /\ surface.stage = "sized"
    /\ surface.imgWidth > surface.maxWidth
    /\ 2 * surface.imgHeight * surface.maxWidth
          = 2 * surface.canvasHeight * surface.imgWidth - surface.imgWidth
    /\ surface.canvasHeight < surface.imgHeight

\* C12: in every reachable state and for every item, either compressedBlob is
\* absent and compressedSize is 0, or compressedBlob is present and
\* compressedSize is the byte length of compressedBlob.
C12_SizeMatchesBlob ==
    \A i \in 1..Len(images) :
       \/ images[i].compressedBlob = NoBlob /\ images[i].compressedSize = 0
       \/ /\ images[i].compressedBlob # NoBlob
          /\ images[i].compressedSize = images[i].compressedBlob.size

\* an item holding the result of a recompression at another quality, beside an
\* item without a result
C12_Witness ==
    \E i, j \in 1..Len(images) :
       /\ images[i].compressedBlob # NoBlob
       /\ images[i].compressedBlob.quality # DefaultQuality
       /\ images[i].compressedSize = images[i].compressedBlob.size
       /\ images[i].compressedSize > 0
       /\ images[j].compressedBlob = NoBlob
       /\ images[j].status = "error"

\* C13: in every reachable state an item whose status is done has a
\* compressedBlob, and the compression job of the item that settled last
\* succeeded.
C13_DoneHasResult ==
    \A i \in 1..Len(images) :
       images[i].status = "done" =>
          /\ images[i].compressedBlob # NoBlob
          /\ lastSettled[images[i].originalPreview] = "resolved"

\* C14: when a compression job of an item fails, the item's compressedBlob and
\* compressedSize keep their values, its status becomes error, and no field of
\* any other item of the collection changes.
C14_FailureTouchesOneItem ==
    [][\A job \in BagToSet(jobs), cause \in {"readerError", "noContext", "nullBlob"} :
          JobReject(job, cause) =>
             /\ Len(images') = Len(images)
             /\ \A i \in 1..Len(images) :
                   IF images[i].originalPreview = job.owner
                   THEN /\ images'[i].compressedBlob = images[i].compressedBlob
                        /\ images'[i].compressedSize = images[i].compressedSize
                        /\ images'[i].status = "error"
                   ELSE images'[i] = images[i]]_vars

\* C15: committing a quality q other than the item's currentQuality on a done
\* or error item sets its status to compressing and its currentQuality to q in
\* that step and starts a job at q; when a job at q started for the item's id
\* succeeds while the item is as the commit left it (compressing, at q), the
\* status becomes done, currentQuality is still q, and compressedBlob and
\* compressedSize are the blob encoded at q and its byte length.
C15_Commit ==
    \A url \in DOMAIN editors :
       LET q == editors[url].localQuality
       IN  (/\ HandleQualityRelease(url)
            /\ q # ItemOf(url).currentQuality
            /\ ItemOf(url).status \in {"done", "error"}) =>
              /\ \A i \in Positions(images, url) :
                    /\ i \in Positions(images', url)
                    /\ images'[i].status = "compressing"
                    /\ images'[i].currentQuality = q
              /\ \E job \in BagToSet(jobs') :
                    /\ job.id = ItemOf(url).id
                    /\ job.quality = q
                    /\ jobs' = jobs (+) SetToBag({job})

C15_Success ==
    \A job \in BagToSet(jobs) :
       JobResolve(job) =>
          \A i \in 1..Len(images) :
             (/\ images[i].id = job.id
              /\ images[i].status = "compressing"
              /\ images[i].currentQuality = job.quality) =>
                /\ images'[i].status = "done"
                /\ images'[i].currentQuality = images[i].currentQuality
                /\ images'[i].compressedBlob # NoBlob
                /\ images'[i].compressedBlob.file = job.file
                /\ images'[i].compressedBlob.quality = images[i].currentQuality
                /\ images'[i].compressedSize = images'[i].compressedBlob.size

C15_CommitThenSuccess == [][C15_Commit /\ C15_Success]_vars

\* a done item recompressed once, at 0.3, and done again
C15_Witness ==
    /\ Len(images) = 1
    /\ count.commits = 1
    /\ images[1].status = "done"
    /\ images[1].currentQuality = 30
    /\ images[1].compressedBlob.quality = 30
    /\ lastSettled[images[1].originalPreview] = "resolved"
    /\ jobs = EmptyBag

\* C16: a drag of the quality slider changes the editor's localQuality and
\* nothing else: the items and the jobs are as before; a release starts a
\* compression job exactly when the released value differs from the item's
\* currentQuality; no release is taken while the item's status is compressing.
C16_Drag ==
    \A url \in DOMAIN editors, v \in SliderValues :
       SetLocalQuality(url, v) =>
          /\ images' = images
          /\ jobs' = jobs
          /\ calls' = calls
          /\ editors'[url].localQuality = v
          /\ editors'[url].isGenerating = editors[url].isGenerating
          /\ \A u \in DOMAIN editors \ {url} : editors'[u] = editors[u]

C16_Release ==
    \A url \in DOMAIN editors :
       HandleQualityRelease(url) =>
          /\ ItemOf(url).status # "compressing"
          /\ IF editors[url].localQuality # ItemOf(url).currentQuality
             THEN BagCardinality(jobs') = BagCardinality(jobs) + 1
             ELSE jobs' = jobs /\ images' = images

C16_DragAndRelease == [][C16_Drag /\ C16_Release]_vars

\* the slider of a done item dragged to 0.3 and not released
C16_Witness ==
    \E url \in DOMAIN editors :
       /\ editors[url].localQuality = 30
       /\ ItemOf(url).currentQuality = 70
       /\ ItemOf(url).status = "done"
       /\ ItemOf(url).compressedBlob.quality = 70
       /\ jobs = EmptyBag
       /\ count.commits = 0

\* C17: a metadata edit of one field of an item, in any status, changes only
\* that field of that item's metadata: its other three metadata fields, its
\* status, currentQuality, compressedBlob and compressedSize and every other
\* item are unchanged; updateImage for an id not in the collection changes
\* nothing.
C17_Edit ==
    \A url \in DOMAIN editors, key \in MetadataKeys, value \in EditTexts :
       HandleMetadataChange(url, key, value) =>
          /\ Len(images') = Len(images)
          /\ \A i \in 1..Len(images) :
                IF images[i].originalPreview = url
                THEN /\ images'[i].metadata[key] = value
                     /\ \A other \in MetadataKeys \ {key} :
                           images'[i].metadata[other] = images[i].metadata[other]
                     /\ images'[i] = [images[i] EXCEPT !.metadata = images'[i].metadata]
                ELSE images'[i] = images[i]

C17_UnknownId ==
    \A id \in IdSpace :
       (\A i \in 1..Len(images) : images[i].id # id) =>
          \A value \in EditTexts :
             UpdateImage(images, id,
                [metadata |-> [title |-> value, altText |-> value, caption |-> value,
                               fileName |-> value]]) = images

C17_EditChangesOneField == [](C17_UnknownId) /\ [][C17_Edit]_vars

\* C18: an auto-generate request and its completion, successful or failed,
\* leave the item's compressedBlob, compressedSize and currentQuality as they
\* were; a request starts only when the item is not compressing and no
\* earlier request of the item is in flight; the completion of a request sets
\* the item's status to done when the item is still in the collection.
C18_Request ==
    \A url \in DOMAIN editors :
       HandleGenerateSEO(url) =>
          /\ ItemOf(url).status # "compressing"
          /\ \A call \in calls : call.owner # url
          /\ \A i \in Positions(images, url) :
                /\ images'[i].compressedBlob = images[i].compressedBlob
                /\ images'[i].compressedSize = images[i].compressedSize
                /\ images'[i].currentQuality = images[i].currentQuality

C18_Completion ==
    \A call \in calls, answer \in ServiceAnswers :
       GenerateSEOSettle(call, answer) =>
          \A i \in Positions(images, call.owner) :
             /\ images'[i].status = "done"
             /\ images'[i].compressedBlob = images[i].compressedBlob
             /\ images'[i].compressedSize = images[i].compressedSize
             /\ images'[i].currentQuality = images[i].currentQuality

C18_AutoGenerateFrame == [][C18_Request /\ C18_Completion]_vars

\* an item with a result whose metadata was generated twice, the second
\* request made after the first had completed
C18_Witness ==
    /\ Len(images) = 1
    /\ count.requests = 2
    /\ calls = {}
    /\ images[1].status = "done"
    /\ images[1].compressedBlob # NoBlob
    /\ images[1].metadata.title = <<"C", "a", "t">>
    /\ ~editors[images[1].originalPreview].isGenerating

\* a name ends, whatever the case of its letters, in the lower-case suffix
EndsInIgnoringCase(name, suffix) ==
    /\ Len(name) >= Len(suffix)
    /\ \A k \in 1..Len(suffix) :
          LET c == name[Len(name) - Len(suffix) + k]
          IN  c = suffix[k] \/ (\E n \in 1..26 : UpperCase[n] = c /\ LowerCase[n] = suffix[k])

HasJpegExtension(name) ==
    \/ EndsInIgnoringCase(name, <<".","j","p","g">>)
    \/ EndsInIgnoringCase(name, <<".","j","p","e","g">>)

\* C19: the download does nothing when the item's compressedBlob is absent;
\* otherwise it saves the current compressedBlob under the item's fileName
\* ('optimized-image' when the fileName is empty), with '.jpg' appended exactly
\* when the name does not end, ignoring case, in '.jpg' or '.jpeg', so that the
\* saved name has such an extension; no field of the item changes.
C19_Download ==
    \A url \in DOMAIN editors :
       HandleDownload(url) =>
          /\ images' = images
          /\ editors' = editors
          /\ IF ItemOf(url).compressedBlob = NoBlob
             THEN link' = link
             ELSE LET fileName == ItemOf(url).metadata.fileName
                      base == IF fileName = <<>>
                              THEN <<"o","p","t","i","m","i","z","e","d","-",
                                     "i","m","a","g","e">>
                              ELSE fileName
                  IN  /\ link'.href = ItemOf(url).compressedBlob
                      /\ link'.download = IF HasJpegExtension(base)
                                          THEN base
                                          ELSE base \o <<".","j","p","g">>
                      /\ HasJpegExtension(link'.download)

C19_DownloadName == [][C19_Download]_vars

\* the result of an item renamed to a.JPG was saved under that name
C19_Witness ==
    /\ link.download = <<"a",".","J","P","G">>
    /\ link.href # NoBlob
    /\ Len(images) = 1
    /\ images[1].metadata.fileName = <<"a",".","J","P","G">>
    /\ images[1].compressedBlob = link.href

\* a file name without its extension: the name up to its last dot, the whole
\* name when it has no dot
RECURSIVE WithoutExtension(_)
WithoutExtension(name) ==
    IF \A k \in 1..Len(name) : name[k] # "." THEN name
    ELSE IF name[Len(name)] = "." THEN SubSeq(name, 1, Len(name) - 1)
         ELSE WithoutExtension(SubSeq(name, 1, Len(name) - 1))

\* C20: for every accepted upload the item's default fileName is the original
\* file name without its extension, lowercased, every run of whitespace
\* replaced by one hyphen; title, altText and caption start empty.
C20_DefaultFileName ==
    \A k \in 1..Len(newImages) :
       LET name == FileName(newImages[k].originalFile)
       IN  /\ newImages[k].metadata.fileName
                = ReplaceSpaces(ToLowerCase(WithoutExtension(name)))
           /\ newImages[k].metadata.title = <<>>
           /\ newImages[k].metadata.altText = <<>>
           /\ newImages[k].metadata.caption = <<>>

\* the values 0.1, 0.15, ..., 1.0, in hundredths
ControlValues == {10 + 5 * k : k \in 0..18}

\* C21: in every reachable state every item's currentQuality lies in
\* [0.1, 1.0]; it is 0.7 at creation and afterwards changes only through a
\* quality commit, to a value the slider can take (0.1 to 1.0 in steps of
\* 0.05).
C21_InRange ==
    /\ \A i \in 1..Len(images) :
          /\ images[i].currentQuality >= 10
          /\ images[i].currentQuality <= 100
          /\ images[i].currentQuality \in ControlValues
    /\ \A k \in 1..Len(newImages) : newImages[k].currentQuality = 70

C21_ChangedByCommit ==
    \A i \in 1..Len(images), j \in 1..Len(images') :
       (/\ images[i].originalPreview = images'[j].originalPreview
        /\ images[i].currentQuality # images'[j].currentQuality) =>
          \E url \in DOMAIN editors :
             /\ HandleQualityRelease(url)
             /\ images'[j].currentQuality = editors[url].localQuality
             /\ images'[j].currentQuality \in ControlValues

C21_QualityLevel == [](C21_InRange) /\ [][C21_ChangedByCommit]_vars

\* an item recompressed twice, the second time at the smallest value of the
\* slider
C21_Witness ==
    /\ Len(images) = 1
    /\ count.commits = 2
    /\ images[1].currentQuality = 10
    /\ images[1].status = "done"
    /\ images[1].compressedBlob.quality = 10

\* the compressImage promises started for the item of url that have not settled
Outstanding(url) ==
    JobsFor(jobs, url) + Cardinality({job \in abandoned : job.owner = url})

\* C22: in every reachable state an item's status is compressing if and only
\* if a compression job of the item is in flight: no item is done, error or
\* analyzing while one of its jobs has not completed, and none is compressing
\* with no job outstanding.
C22_CompressingIffJobInFlight ==
    \A i \in 1..Len(images) :
       images[i].status = "compressing" <=> Outstanding(images[i].originalPreview) > 0

\* C23: in every reachable state an item whose status is analyzing has a
\* metadata call in flight for it; the status analyzing is entered only by an
\* auto-generate request, and is not left in place when the call of that
\* request completes.
C23_Analyzing ==
    \A i \in 1..Len(images) :
       images[i].status = "analyzing" =>
          \E call \in calls : call.owner = images[i].originalPreview

C23_Entered ==
    /\ \A i \in 1..Len(images), j \in 1..Len(images') :
          (/\ images[i].originalPreview = images'[j].originalPreview
           /\ images[i].status # "analyzing"
           /\ images'[j].status = "analyzing") =>
             HandleGenerateSEO(images[i].originalPreview)
    /\ \A call \in calls, answer \in ServiceAnswers :
          GenerateSEOSettle(call, answer) =>
             \A j \in Positions(images', call.owner) : images'[j].status # "analyzing"

C23_AnalyzingIffCallInFlight == [](C23_Analyzing) /\ [][C23_Entered]_vars

\* the item of url is in the collection with the status
InStatus(url, status) ==
    \E i \in 1..Len(images) :
       images[i].originalPreview = url /\ images[i].status = status

\* one upload, the browser delivering every event it has for a pending
\* compressImage promise and running processFiles to its end
SpecFair ==
    /\ Init
    /\ [][NextSingle]_vars
    /\ WF_vars(ProcessFilesForEach)
    /\ WF_vars(\E job \in BagToSet(jobs) : JobSettles(job) \/ JobImgError(job))

\* C24: under fair scheduling of the browser's callbacks every item that
\* enters compressing eventually reaches done or error or is removed from the
\* collection, whether its source decodes or not.
C24_CompressingEnds ==
    \A url \in 1..MaxUploads :
       InStatus(url, "compressing") ~>
          (url \notin Urls(images) \/ InStatus(url, "done") \/ InStatus(url, "error"))

\* the positions of imgs whose item differs from the item at the same position
\* of other
Changed(imgs, other) == {i \in 1..Len(imgs) : imgs[i] # other[i]}

\* one call of updateImage took the collection from imgs to other
OneUpdate(imgs, other) ==
    /\ Len(other) = Len(imgs)
    /\ \A i \in 1..Len(imgs) : other[i].originalPreview = imgs[i].originalPreview
    /\ Cardinality(Changed(imgs, other)) <= 1

\* C25: status updates, field updates and job completions change neither the
\* number nor the order of the items and modify at most the one item whose id
\* they name; only processFiles adds items, at the end, and only removeImage
\* and Clear All delete items.
C25_Frame ==
    /\ (\E job \in BagToSet(jobs) : JobSettles(job)) => OneUpdate(images, images')
    /\ (\E call \in calls, answer \in ServiceAnswers : GenerateSEOSettle(call, answer)) =>
          OneUpdate(images, images')
    /\ (\E url \in DOMAIN editors : HandleGenerateSEO(url) \/ HandleQualityRelease(url)) =>
          OneUpdate(images, images')
    /\ (\E url \in DOMAIN editors, key \in MetadataKeys, value \in EditTexts :
            HandleMetadataChange(url, key, value)) => OneUpdate(images, images')
    /\ pc = "forEach" =>
          /\ Len(images') = Len(images)
          /\ \A i \in 1..Len(images) :
                images'[i].originalPreview = images[i].originalPreview
          /\ \A i \in Changed(images, images') :
                \E k \in 1..Len(newImages) :
                   newImages[k].originalPreview = images[i].originalPreview
    /\ Len(images') > Len(images) =>
          /\ pc = "idle" /\ pc' = "forEach"
          /\ SubSeq(images', 1, Len(images)) = images
    /\ Len(images') < Len(images) =>
          \/ ClearAll
          \/ \E id \in IdSpace : RemoveImage(id)

C25_CollectionFrame == [][C25_Frame]_vars


\* C26: leaving the title field of an item replaces the item's fileName with
\* slugify(title) exactly when the title is non-empty and the fileName is empty
\* or begins with 'image', the item's other fields staying as they were; in
\* every other case nothing changes, so a non-empty fileName that does not
\* begin with 'image' survives the blur.
C26_Suggests(metadata) ==
    /\ Len(metadata.title) > 0
    /\ \/ Len(metadata.fileName) = 0
       \/ /\ Len(metadata.fileName) >= 5
          /\ SubSeq(metadata.fileName, 1, 5) = <<"i","m","a","g","e">>

C26_Blur ==
    \A url \in DOMAIN editors :
       HandleTitleBlur(url) =>
          IF C26_Suggests(ItemOf(url).metadata)
          THEN /\ Len(images') = Len(images)
               /\ \A i \in Positions(images, url) :
                     /\ images'[i].metadata.fileName = Slugify(images[i].metadata.title)
                     /\ images'[i] = [images[i] EXCEPT
                                         !.metadata.fileName = images'[i].metadata.fileName]
          ELSE UNCHANGED vars

C26_Kept ==
    \A url \in DOMAIN editors :
       HandleTitleBlur(url) =>
          \A i \in Positions(images, url) :
             LET fileName == images[i].metadata.fileName
             IN  (fileName # <<>> /\ ~StartsWith(fileName, ImageWord)) =>
                    images'[i].metadata.fileName = fileName

C26_TitleBlur == [][C26_Blur /\ C26_Kept]_vars

\* the item of image1.jpg, never sent to the metadata service, with the title
\* Cat typed and the file name cat suggested on leaving the field
C26_Witness ==
    /\ count.requests = 0
    /\ count.edits = 1
    /\ \E i \in 1..Len(images) :
          /\ images[i].originalFile = "corrupt"
          /\ images[i].metadata.title = <<"C","a","t">>
          /\ images[i].metadata.fileName = <<"c","a","t">>


\* C27: for every text over the alphabet, slugify's result holds only small
\* letters, digits, underscores and hyphens, holds no two hyphens in a row,
\* and slugify of the result is the result.
C27_SlugChars ==
    {"a","b","c","d","e","f","g","h","i","j","k","l","m","n","o","p","q","r","s","t",
     "u","v","w","x","y","z","0","1","2","3","4","5","6","7","8","9","_","-"}

C27_Slugify ==
    /\ slug.stage \in {"once", "twice"} =>
          /\ \A k \in 1..Len(slug.once) : slug.once[k] \in C27_SlugChars
          /\ \A k \in 1..(Len(slug.once) - 1) :
                ~(slug.once[k] = "-" /\ slug.once[k + 1] = "-")
    /\ slug.stage = "twice" => slug.twice = slug.once

\* the text "- !-": the space becomes a hyphen and the removal of the
\* exclamation mark leaves three hyphens in a row, collapsed to one
C27_Witness ==
    /\ slug.stage = "twice"
    /\ slug.text = <<"-", " ", "!", "-">>
    /\ slug.once = <<"-">>


\* C28: an ad unit pushes at most one ad request, pushes only after its
\* observer reported a size whose width and height are both nonzero, and
\* pushes none when its client id is missing or the placeholder's or its slot
\* is missing.
C28_AdRequest ==
    /\ ad.pushes <= 1
    /\ ad.pushes > 0 => ad.seen
    /\ (ad.client \in {"", "ca-pub-YOUR_ID_HERE"} \/ ad.slot = "") => ad.pushes = 0

\* a unit of the configured client and slot that pushed its request, with a
\* later observation still waiting for its animation frame
C28_Witness ==
    /\ ad.stage = "mounted"
    /\ ad.client = "ca-pub-6989783976135951"
    /\ ad.slot = "9069653922"
    /\ ad.pushes = 1
    /\ ad.adRequested
    /\ \E frame \in ad.frames : frame.closure

====
